---------------------------- MODULE Spec2Model ----------------------------
(***************************************************************************)
(* Model of the chunking subsystem of issue_triage (src/ingest/chunker.py, *)
(* src/ingest/clean_text.py) and of embed_rows in its caller,              *)
(* src/ingest/indexer.py.                                                  *)
(*                                                                         *)
(* Text.  A string is a sequence of pieces.  A piece is a maximal run of   *)
(* characters that holds no whitespace the sentence pattern could split    *)
(* at; successive pieces of a string are separated by whitespace.  A piece *)
(* records what the code reads of it:                                      *)
(*   tok   its token count when it stands at the start of a string,        *)
(*   lead  the tokens the tokenizer adds when a space precedes it          *)
(*         (0: the space merges into the first token, 1: it does not),     *)
(*   cap   whether it starts with one of  A-Z 0-9 " ( [ ,                  *)
(*   end   "none", "term" (ends in . ! ?), "quote" (ends in . ! ? and a    *)
(*         closing quote or bracket, one further token) or "para" (the     *)
(*         blank line closing the context prefix).                         *)
(* Indices (i, start_sentence, end_sentence, chunk_id) are 0-based as in   *)
(* the code; sequence positions are 1-based.                               *)
(***************************************************************************)
EXTENDS Integers, Sequences, FiniteSets, TLC

VARIABLES
    call,             \* the function called: "pack", "enforce", "document" or "embed"
    pc,               \* position of the running call: "start", "enter", "pack", "close",
                      \* "enforce", "enforced", "embed", "rows", "done" (returned),
                      \* "raised" (ValueError) or "runtime_error" (RuntimeError)
    title,            \* create_chunks_for_document: title argument
    body,             \* create_chunks_for_document: body argument
    max_embed_tokens, \* create_chunks_for_document: max_embed_tokens argument
    sentences,        \* pack_sentences_into_chunks: sentences argument
    max_tokens,       \* pack_sentences_into_chunks: max_tokens argument (the document's chunk_size)
    overlap_tokens,   \* pack_sentences_into_chunks: overlap_tokens argument (the document's too)
    i,                \* pack_sentences_into_chunks: scan index
    start_i,          \* pack_sentences_into_chunks: first sentence of the open chunk
    end_i,            \* pack_sentences_into_chunks: last sentence of the open chunk
    cid,              \* pack_sentences_into_chunks: next chunk id
    chunks,           \* pack_sentences_into_chunks: list built; enforce_hard_cap: argument
    cap,              \* enforce_hard_cap: cap argument
    safe,             \* enforce_hard_cap: list returned
    again,            \* enforce_hard_cap applied to its own result
    result,           \* create_chunks_for_document: list returned
    rows,             \* embed_rows: rows argument
    client,           \* indexer: the module's OpenAI client, or "None"
    row_i,            \* embed_rows: rows the for loop has taken
    batch_texts,      \* embed_rows: bodies of the open batch
    batch_tokens,     \* embed_rows: token_count sum of the open batch
    requests,         \* the input of each embeddings request sent, in order
    vectors           \* embed_rows: vectors collected, returned at the end

\* the variables of the chunker's functions, call and pc apart
chunkerVars == <<title, body, max_embed_tokens, sentences, max_tokens, overlap_tokens,
                 i, start_i, end_i, cid, chunks, cap, safe, again, result>>

\* the variables of embed_rows
embedVars == <<rows, client, row_i, batch_texts, batch_tokens, requests, vectors>>

vars == <<call, pc, chunkerVars, embedVars>>

----------------------------------------------------------------------------
(* Bounds of the model.                                                    *)

\* longest sentence list given to the packer
MaxLen == 4

\* largest max_tokens, overlap_tokens and cap tried
MaxLimit == 3

\* most pieces in the text of a chunk given to the enforcer
MaxPieces == 2

\* most items (pieces, markup, whitespace runs) in a document body
MaxBody == 3

\* most rows of a short row list, and most rows after a full batch
MaxRows == 3

----------------------------------------------------------------------------
(* Helpers.                                                                *)

Max(a, b) == IF a >= b THEN a ELSE b

Last(s) == s[Len(s)]

\* all sequences over S of length 0..n
RECURSIVE SeqsUpTo(_, _)
SeqsUpTo(S, n) ==
    IF n = 0 THEN {<<>>}
    ELSE LET shorter == SeqsUpTo(S, n - 1)
         IN  shorter \cup {Append(s, x) : s \in {t \in shorter : Len(t) = n - 1}, x \in S}

\* " ".join(list): the strings one after the other, whitespace between them
RECURSIVE Join(_)
Join(list) ==
    IF list = <<>> THEN <<>> ELSE Head(list) \o Join(Tail(list))

----------------------------------------------------------------------------
(* Chunk record and the absent title.                                      *)

\* title values: None, or a string with an optional "(part i/total)" marker
NoTitle == [some |-> FALSE, str |-> <<>>, part |-> 0, total |-> 0]

PlainTitle(s) == [some |-> TRUE, str |-> s, part |-> 0, total |-> 0]

\* truthiness of a title argument: neither None nor ""
Truthy(t) == t.some /\ t.str # <<>>

Chunk(id, text, start, end, count, ttl) ==
    [chunk_id |-> id, text |-> text, token_count |-> count,
     start_sentence |-> start, end_sentence |-> end, title |-> ttl]

----------------------------------------------------------------------------
(* Token counting.                                                         *)

PieceTok(p) == p.tok + (IF p.end = "quote" THEN 1 ELSE 0)

\* len(enc.encode(text)): each piece's tokens, plus what the space before a
\* piece adds; the piece after the prefix's blank line has no space before it
RECURSIVE count_tokens(_)
count_tokens(text) ==
    IF text = <<>> THEN 0
    ELSE IF Len(text) = 1 THEN PieceTok(text[1])
    ELSE LET front == SubSeq(text, 1, Len(text) - 1)
             p     == Last(text)
         IN  count_tokens(front) + PieceTok(p)
               + (IF Last(front).end = "para" THEN 0 ELSE p.lead)

sentence_token_counts(list) == [k \in 1..Len(list) |-> count_tokens(list[k])]

----------------------------------------------------------------------------
(* Sentence splitting.                                                     *)

EndsSentence(p) == p.end \in {"term", "quote"}

\* _SENT_END_RE matches between pieces p and q: p ends in . ! ? with an
\* optional closing quote, whitespace follows, q starts with A-Z 0-9 " ( [
SentEndMatch(p, q) == EndsSentence(p) /\ q.cap

\* the text left of a match: the optional closing quote belongs to the match
DropQuote(p) == IF p.end = "quote" THEN [p EXCEPT !.end = "term"] ELSE p

\* _SENT_END_RE.split(tmp): the parts between the matches
RECURSIVE SentEndSplit(_, _)
SentEndSplit(text, part) ==
    IF text = <<>> THEN (IF part = <<>> THEN <<>> ELSE <<part>>)
    ELSE IF Len(text) >= 2 /\ SentEndMatch(text[1], text[2])
         THEN <<Append(part, DropQuote(text[1]))>> \o SentEndSplit(Tail(text), <<>>)
         ELSE SentEndSplit(Tail(text), Append(part, text[1]))

\* the loop over parts: a buffer that does not end a sentence takes the next part
RECURSIVE MergeParts(_, _, _)
MergeParts(parts, buf, out) ==
    IF parts = <<>> THEN (IF buf # <<>> THEN Append(out, buf) ELSE out)
    ELSE LET piece == Head(parts)
         IN  IF piece = <<>> THEN MergeParts(Tail(parts), buf, out)
             ELSE IF buf = <<>> THEN MergeParts(Tail(parts), piece, out)
             ELSE IF ~EndsSentence(Last(buf))
                  THEN MergeParts(Tail(parts), buf \o piece, out)
                  ELSE MergeParts(Tail(parts), piece, Append(out, buf))

split_paragraph_into_sentences(paragraph) ==
    MergeParts(SentEndSplit(paragraph, <<>>), <<>>, <<>>)

\* text without blank lines is one paragraph; empty text has none
split_into_paragraphs(text) == IF text = <<>> THEN <<>> ELSE <<text>>

----------------------------------------------------------------------------
(* pack_sentences_into_chunks.                                             *)

\* ScanEnd without the test that the chunk is still empty
RECURSIVE ScanEndMayBeEmpty(_, _, _, _, _, _)
ScanEndMayBeEmpty(toks, limit, first, last_i, k, cur_tokens) ==
    IF k < Len(toks) /\ cur_tokens + toks[k + 1] <= limit
    THEN ScanEndMayBeEmpty(toks, limit, first, k, k + 1, cur_tokens + toks[k + 1])
    ELSE last_i

\* ScanEnd taking a sentence only while the sum stays below the limit
RECURSIVE ScanEndBelowLimit(_, _, _, _, _, _)
ScanEndBelowLimit(toks, limit, first, last_i, k, cur_tokens) ==
    IF k < Len(toks) /\ (cur_tokens + toks[k + 1] < limit \/ last_i < first)
    THEN ScanEndBelowLimit(toks, limit, first, k, k + 1, cur_tokens + toks[k + 1])
    ELSE last_i

\* the inner while loop: the value of end_i when it stops (i is then end_i + 1)
RECURSIVE ScanEnd(_, _, _, _, _, _)
ScanEnd(toks, limit, first, last_i, k, cur_tokens) ==
    IF k < Len(toks) /\ (cur_tokens + toks[k + 1] <= limit \/ last_i < first)
    THEN ScanEnd(toks, limit, first, k, k + 1, cur_tokens + toks[k + 1])
    ELSE last_i

\* WalkBack going on while the sum has not passed overlap_needed
RECURSIVE WalkBackPast(_, _, _, _, _)
WalkBackPast(toks, first, j, cum, overlap_needed) ==
    IF j >= first /\ cum <= overlap_needed
    THEN WalkBackPast(toks, first, j - 1, cum + toks[j + 1], overlap_needed)
    ELSE j

\* the backward walk: the value of j when it stops
RECURSIVE WalkBack(_, _, _, _, _)
WalkBack(toks, first, j, cum, overlap_needed) ==
    IF j >= first /\ cum < overlap_needed
    THEN WalkBack(toks, first, j - 1, cum + toks[j + 1], overlap_needed)
    ELSE j

\* NextScan walking back for at least one token even when no overlap is asked for
NextScanRepeats(toks, k, first, last_i, overlap) ==
    IF k >= Len(toks)
    THEN k
    ELSE Max(WalkBack(toks, first, last_i, 0, Max(overlap, 1)) + 1, first)

\* the scan index after the chunk [start_i, end_i] is closed: unchanged when
\* the list is used up or no overlap is asked for, else set by the backward walk
NextScan(toks, k, first, last_i, overlap) ==
    IF k >= Len(toks) \/ overlap = 0
    THEN k
    ELSE Max(WalkBack(toks, first, last_i, 0, overlap) + 1, first)

\* PackedChunk recording 1-based sentence positions
PackedChunkOneBased(list, id, first, last_i) ==
    LET text == Join(SubSeq(list, first + 1, last_i + 1))
    IN  Chunk(id, text, first + 1, last_i + 1, count_tokens(text), NoTitle)

\* the chunk the packer appends for sentences start_i..end_i
PackedChunk(list, id, first, last_i) ==
    LET text == Join(SubSeq(list, first + 1, last_i + 1))
    IN  Chunk(id, text, first, last_i, count_tokens(text), NoTitle)

\* InvalidArguments letting max_tokens = 0 through
InvalidArgumentsZeroAllowed(limit, overlap) == limit < 0 \/ overlap < 0

\* the two tests that raise ValueError
InvalidArguments(limit, overlap) == limit <= 0 \/ overlap < 0

\* the outer loop run to its end when no overlap is asked for (the scan index
\* is then left where the inner loop stopped): the list built from index k on
RECURSIVE PackFrom(_, _, _, _, _)
PackFrom(list, limit, k, id, out) ==
    IF k < Len(list)
    THEN LET toks == sentence_token_counts(list)
             e    == ScanEnd(toks, limit, k, k - 1, k, 0)
         IN  PackFrom(list, limit, NextScan(toks, e + 1, k, e, 0), id + 1,
                      Append(out, PackedChunk(list, id, k, e)))
    ELSE out

\* the arguments are checked and the loop variables set
PackEnter ==
    /\ pc = "enter"
    /\ IF InvalidArguments(max_tokens, overlap_tokens)
       THEN /\ pc' = "raised"
            /\ UNCHANGED <<i, cid, chunks>>
       ELSE /\ pc' = "pack"
            /\ i' = 0
            /\ cid' = 0
            /\ chunks' = <<>>
    /\ UNCHANGED <<call, title, body, max_embed_tokens, sentences, max_tokens,
                   overlap_tokens, start_i, end_i, cap, safe, again, result>>
    /\ UNCHANGED embedVars

\* the outer loop is entered and the inner loop runs: sentences are taken
\* while they fit or the chunk is still empty
PackScan ==
    /\ pc = "pack"
    /\ i < Len(sentences)
    /\ LET toks == sentence_token_counts(sentences)
           e    == ScanEnd(toks, max_tokens, i, i - 1, i, 0)
       IN  /\ start_i' = i
           /\ end_i' = e
           /\ i' = e + 1
    /\ pc' = "close"
    /\ UNCHANGED <<call, title, body, max_embed_tokens, sentences, max_tokens,
                   overlap_tokens, cid, chunks, cap, safe, again, result>>
    /\ UNCHANGED embedVars

\* the chunk is appended and the scan index set for the next chunk.  A call
\* that returns builds at most Len(sentences) chunks; once the list is longer
\* the call is known never to return and further chunks, equal to the last
\* ones, are not recorded.
PackClose ==
    /\ pc = "close"
    /\ LET toks   == sentence_token_counts(sentences)
           record == Len(chunks) <= Len(sentences)
       IN  /\ chunks' = IF record
                        THEN Append(chunks, PackedChunk(sentences, cid, start_i, end_i))
                        ELSE chunks
           /\ cid' = IF record THEN cid + 1 ELSE cid
           /\ i' = NextScan(toks, i, start_i, end_i, overlap_tokens)
    /\ pc' = "pack"
    /\ UNCHANGED <<call, title, body, max_embed_tokens, sentences, max_tokens,
                   overlap_tokens, start_i, end_i, cap, safe, again, result>>
    /\ UNCHANGED embedVars

\* return chunks
PackReturn ==
    /\ pc = "pack"
    /\ i >= Len(sentences)
    /\ pc' = IF call = "pack" THEN "done" ELSE "enforce"
    /\ UNCHANGED <<call, title, body, max_embed_tokens, sentences, max_tokens,
                   overlap_tokens, i, start_i, end_i, cid, chunks, cap, safe, again, result>>
    /\ UNCHANGED embedVars

----------------------------------------------------------------------------
(* enforce_hard_cap.                                                       *)

\* the inner while loop of the split: the value of end_i_local when it stops
RECURSIVE LocalScanEnd(_, _, _, _, _, _)
LocalScanEnd(toks, limit, start_i_local, end_i_local, k, cur_tokens) ==
    IF k < Len(toks) /\ (cur_tokens + toks[k + 1] <= limit \/ end_i_local < start_i_local)
    THEN LocalScanEnd(toks, limit, start_i_local, k, k + 1, cur_tokens + toks[k + 1])
    ELSE end_i_local

\* SubChunk numbering its sentences from 0, without the chunk's start
SubChunkLocalRange(c, local_sentences, next_id, start_i_local, end_i_local) ==
    LET sub_text == Join(SubSeq(local_sentences, start_i_local + 1, end_i_local + 1))
    IN  Chunk(next_id, sub_text, start_i_local, end_i_local,
              count_tokens(sub_text), c.title)

\* SubChunk adding 1-based local positions to the chunk's start
SubChunkOneBased(c, local_sentences, next_id, start_i_local, end_i_local) ==
    LET sub_text == Join(SubSeq(local_sentences, start_i_local + 1, end_i_local + 1))
    IN  Chunk(next_id, sub_text, c.start_sentence + start_i_local + 1,
              c.start_sentence + end_i_local + 1, count_tokens(sub_text), c.title)

\* the sub-chunk appended for the local sentences start_i_local..end_i_local of c
SubChunk(c, local_sentences, next_id, start_i_local, end_i_local) ==
    LET sub_text == Join(SubSeq(local_sentences, start_i_local + 1, end_i_local + 1))
    IN  Chunk(next_id, sub_text, c.start_sentence + start_i_local,
              c.start_sentence + end_i_local, count_tokens(sub_text), c.title)

\* the outer while loop of the split, from local index k on: the list and
\* the next id when it ends
RECURSIVE SplitChunk(_, _, _, _, _, _, _)
SplitChunk(c, local_sentences, toks, limit, k, out, next_id) ==
    IF k < Len(local_sentences)
    THEN LET e == LocalScanEnd(toks, limit, k, k - 1, k, 0)
         IN  SplitChunk(c, local_sentences, toks, limit, e + 1,
                        Append(out, SubChunk(c, local_sentences, next_id, k, e)),
                        next_id + 1)
    ELSE [safe |-> out, next_id |-> next_id]

\* PassedChunk keeping the id the chunk came with
PassedChunkKeepsId(c, next_id) ==
    Chunk(c.chunk_id, c.text, c.start_sentence, c.end_sentence, c.token_count, c.title)

\* a chunk within the cap, copied with the next id
PassedChunk(c, next_id) ==
    Chunk(next_id, c.text, c.start_sentence, c.end_sentence, c.token_count, c.title)

\* the for loop over the chunks
RECURSIVE EnforceLoop(_, _, _, _)
EnforceLoop(list, limit, out, next_id) ==
    IF list = <<>> THEN out
    ELSE LET c == Head(list)
         IN  IF c.token_count <= limit
             THEN EnforceLoop(Tail(list), limit,
                              Append(out, PassedChunk(c, next_id)), next_id + 1)
             ELSE LET local_sentences == split_paragraph_into_sentences(c.text)
                      toks            == sentence_token_counts(local_sentences)
                      split           == SplitChunk(c, local_sentences, toks, limit,
                                                    0, out, next_id)
                  IN  EnforceLoop(Tail(list), limit, split.safe, split.next_id)

enforce_hard_cap(list, limit) == EnforceLoop(list, limit, <<>>, 0)

\* enforce_hard_cap(chunks, cap) is called and returns
EnforceCall ==
    /\ call = "enforce"
    /\ pc = "enforce"
    /\ safe' = enforce_hard_cap(chunks, cap)
    /\ pc' = "enforced"
    /\ UNCHANGED <<call, title, body, max_embed_tokens, sentences, max_tokens,
                   overlap_tokens, i, start_i, end_i, cid, chunks, cap, again, result>>
    /\ UNCHANGED embedVars

\* the list returned is given to enforce_hard_cap once more, with the same cap
EnforceAgain ==
    /\ call = "enforce"
    /\ pc = "enforced"
    /\ again' = enforce_hard_cap(safe, cap)
    /\ pc' = "done"
    /\ UNCHANGED <<call, title, body, max_embed_tokens, sentences, max_tokens,
                   overlap_tokens, i, start_i, end_i, cid, chunks, cap, safe, result>>
    /\ UNCHANGED embedVars

----------------------------------------------------------------------------
(* md_to_text, chunk_text and create_chunks_for_document.                  *)

\* tokens kept free below the embedding cap for the context prefix
Headroom == 200

\* a body is a sequence of items: a piece of visible text, markup that the
\* cleaning removes (a fenced code block, an HTML tag), or a run of whitespace
Visible(item) == item.md = "text"

\* md_to_text: fences are removed, tags become spaces, whitespace collapses
\* to single spaces and the ends are trimmed: the visible pieces remain
RECURSIVE md_to_text(_)
md_to_text(md) ==
    IF md = <<>> THEN <<>>
    ELSE IF Visible(Head(md)) THEN <<Head(md).piece>> \o md_to_text(Tail(md))
    ELSE md_to_text(Tail(md))

\* not body or not body.strip()
BlankBody(b) == \A k \in 1..Len(b) : b[k].md = "space"

\* the sentence list chunk_text gives to the packer
RECURSIVE SentencesOf(_)
SentencesOf(paragraphs) ==
    IF paragraphs = <<>> THEN <<>>
    ELSE split_paragraph_into_sentences(Head(paragraphs)) \o SentencesOf(Tail(paragraphs))

chunk_text_sentences(text) == SentencesOf(split_into_paragraphs(text))

\* the placeholder literal "<Untitled>"
Untitled == <<[tok |-> 3, lead |-> 1, cap |-> FALSE, end |-> "none"]>>

\* "Title: {title}\n\n", or "" without a title
context_prefix(t) ==
    IF Truthy(t)
    THEN <<[tok |-> 2, lead |-> 0, cap |-> TRUE, end |-> "none"]>> \o t.str
           \o <<[tok |-> 1, lead |-> 0, cap |-> FALSE, end |-> "para"]>>
    ELSE <<>>

\* "{title} (part i/total)", or "Part i/total" without a title
PartTitle(t, k, total) ==
    [some |-> TRUE, str |-> IF Truthy(t) THEN t.str ELSE <<>>, part |-> k, total |-> total]

\* Prefixed leaving token_count as the enforcer set it
PrefixedStaleCount(list, t) ==
    IF Len(list) > 1
    THEN [k \in 1..Len(list) |->
            [list[k] EXCEPT !.title = PartTitle(t, k, Len(list)),
                            !.text = context_prefix(t) \o list[k].text]]
    ELSE list

\* Prefixed treating a single chunk like several
PrefixedSingleToo(list, t) ==
    [k \in 1..Len(list) |->
        LET text == context_prefix(t) \o list[k].text
        IN  [list[k] EXCEPT !.title = PartTitle(t, k, Len(list)),
                            !.text = text,
                            !.token_count = count_tokens(text)]]

\* the loop over the chunks when there are several: title, prefixed text, new count
Prefixed(list, t) ==
    IF Len(list) > 1
    THEN [k \in 1..Len(list) |->
            LET text == context_prefix(t) \o list[k].text
            IN  [list[k] EXCEPT !.title = PartTitle(t, k, Len(list)),
                                !.text = text,
                                !.token_count = count_tokens(text)]]
    ELSE list

\* BlankChunk without the placeholder
BlankChunkTitleOnly(t) ==
    Chunk(0, t.str, 0, 0, count_tokens(t.str), t)

\* the chunk returned for an empty or whitespace-only body
BlankChunk(t) ==
    LET text == IF Truthy(t) THEN t.str ELSE Untitled
    IN  Chunk(0, text, 0, 0, count_tokens(text), t)

\* create_chunks_for_document up to the packer's call: a blank body returns
\* at once, any other is cleaned and split into the packer's sentences
DocStart ==
    /\ call = "document"
    /\ pc = "start"
    /\ IF BlankBody(body)
       THEN /\ result' = <<BlankChunk(title)>>
            /\ pc' = "done"
            /\ UNCHANGED sentences
       ELSE /\ sentences' = chunk_text_sentences(md_to_text(body))
            /\ pc' = "enter"
            /\ UNCHANGED result
    /\ UNCHANGED <<call, title, body, max_embed_tokens, max_tokens, overlap_tokens,
                   i, start_i, end_i, cid, chunks, cap, safe, again>>
    /\ UNCHANGED embedVars

\* create_chunks_for_document after the packer: the cap is enforced, the
\* context prefix and part titles are added, the list is returned
DocFinish ==
    /\ call = "document"
    /\ pc = "enforce"
    /\ cap' = max_embed_tokens - Headroom
    /\ safe' = enforce_hard_cap(chunks, max_embed_tokens - Headroom)
    /\ result' = Prefixed(enforce_hard_cap(chunks, max_embed_tokens - Headroom), title)
    /\ pc' = "done"
    /\ UNCHANGED <<call, title, body, max_embed_tokens, sentences, max_tokens,
                   overlap_tokens, i, start_i, end_i, cid, chunks, again>>
    /\ UNCHANGED embedVars

----------------------------------------------------------------------------
(* embed_rows.  A row is its body and its token_count; a body is named by  *)
(* the row's position in the list, so that a request shows which rows it   *)
(* carries.  The backend answers every request.                            *)

\* per-request aggregate token budget (sum across the inputs of a request)
PER_REQUEST_TOKEN_BUDGET == 300000

\* per-input token limit: the value config.py sets when the environment sets none
EMBEDDING_TOKEN_LIMIT == 8192

\* OverLimit with the limit one token too high
OverLimitOffByOne(row) == row.token_count > EMBEDDING_TOKEN_LIMIT + 1

\* the per-input test that raises ValueError
OverLimit(row) == row.token_count > EMBEDDING_TOKEN_LIMIT

\* NeedsFlush measuring the open batch without the row to be added
NeedsFlushBatchOnly(texts, tokens, row) ==
    texts # <<>> /\ tokens > PER_REQUEST_TOKEN_BUDGET

\* the open batch is sent before the row is added
NeedsFlush(texts, tokens, row) ==
    texts # <<>> /\ tokens + row.token_count > PER_REQUEST_TOKEN_BUDGET

\* [d.embedding for d in resp.data]: one vector per input, in input order
Embeddings(input) == [k \in 1..Len(input) |-> [embedding |-> input[k]]]

\* ClearedBatch leaving the sent bodies in the batch
UnclearedBatch(texts) == texts

\* batch_texts after batch_texts.clear()
ClearedBatch(texts) == <<>>

\* the client is tested and the locals are set
EmbedEnter ==
    /\ call = "embed"
    /\ pc = "embed"
    /\ IF client = "None"
       THEN /\ pc' = "runtime_error"
            /\ UNCHANGED <<row_i, batch_texts, batch_tokens, vectors>>
       ELSE /\ pc' = "rows"
            /\ vectors' = <<>>
            /\ batch_texts' = <<>>
            /\ batch_tokens' = 0
            /\ row_i' = 0
    /\ UNCHANGED <<call, rows, client, requests, chunkerVars>>

\* one turn of the for loop: the row is tested against the limit, the open
\* batch is sent if the row does not fit, the row joins the batch
EmbedRow ==
    /\ call = "embed"
    /\ pc = "rows"
    /\ row_i < Len(rows)
    /\ LET row   == rows[row_i + 1]
           flush == NeedsFlush(batch_texts, batch_tokens, row)
       IN  IF OverLimit(row)
           THEN /\ pc' = "raised"
                /\ UNCHANGED <<row_i, batch_texts, batch_tokens, requests, vectors>>
           ELSE /\ requests' = IF flush THEN Append(requests, batch_texts) ELSE requests
                /\ vectors' = IF flush THEN vectors \o Embeddings(batch_texts) ELSE vectors
                /\ batch_texts' = Append(IF flush THEN ClearedBatch(batch_texts)
                                                  ELSE batch_texts, row.body)
                /\ batch_tokens' = (IF flush THEN 0 ELSE batch_tokens) + row.token_count
                /\ row_i' = row_i + 1
                /\ pc' = "rows"
    /\ UNCHANGED <<call, rows, client, chunkerVars>>

\* the loop is over: the last batch, if any, is sent and vectors is returned
EmbedReturn ==
    /\ call = "embed"
    /\ pc = "rows"
    /\ row_i >= Len(rows)
    /\ requests' = IF batch_texts # <<>> THEN Append(requests, batch_texts) ELSE requests
    /\ vectors' = IF batch_texts # <<>> THEN vectors \o Embeddings(batch_texts) ELSE vectors
    /\ pc' = "done"
    /\ UNCHANGED <<call, rows, client, row_i, batch_texts, batch_tokens, chunkerVars>>

\* embed_rows is not running
EmbedIdle ==
    /\ rows = <<>>
    /\ client = "None"
    /\ row_i = 0
    /\ batch_texts = <<>>
    /\ batch_tokens = 0
    /\ requests = <<>>
    /\ vectors = <<>>

----------------------------------------------------------------------------
(* Inputs of pack_sentences_into_chunks.                                   *)

\* sentences as the splitter produces them: one piece, capital first, full stop last
PackPieces == [tok : 1..2, lead : 0..1, cap : {TRUE}, end : {"term"}]

\* the sentence strings tried: the empty string and the one-piece sentences
PackSentences == {<<>>} \cup {<<p>> : p \in PackPieces}

\* ten sentences of 20 tokens each (soft target 45)
TenSentences == [k \in 1..10 |-> <<[tok |-> 20, lead |-> 0, cap |-> TRUE, end |-> "term"]>>]

InitPack ==
    /\ call = "pack"
    /\ pc = "enter"
    /\ \/ /\ sentences \in SeqsUpTo(PackSentences, MaxLen)
          /\ max_tokens \in 0..MaxLimit
          /\ overlap_tokens \in (-1)..MaxLimit
       \/ /\ sentences = TenSentences
          /\ max_tokens = 45
          /\ overlap_tokens \in {0, 20}
    /\ i = 0
    /\ start_i = 0
    /\ end_i = -1
    /\ cid = 0
    /\ chunks = <<>>
    /\ title = NoTitle
    /\ body = <<>>
    /\ max_embed_tokens = 0
    /\ cap = 0
    /\ safe = <<>>
    /\ again = <<>>
    /\ result = <<>>
    /\ EmbedIdle

NextPack == PackEnter \/ PackScan \/ PackClose \/ PackReturn

SpecPack == InitPack /\ [][NextPack]_vars

\* the loop runs on: a step that can be taken is taken
FairPack == SpecPack /\ WF_vars(NextPack)

----------------------------------------------------------------------------
(* Inputs of enforce_hard_cap: any chunk, alone or followed by a second.   *)

\* one-token pieces with every start and every end; a sentence of several
\* tokens is a run of pieces the pattern does not split
EnforcePieces == [tok : {1}, lead : 0..1, cap : BOOLEAN, end : {"none", "term", "quote"}]

OneWord == <<[tok |-> 1, lead |-> 0, cap |-> TRUE, end |-> "term"]>>

\* the chunks with the given text: token_count right or stale, any start,
\* a range of one sentence or of as many as the text splits into; and, the
\* count right, a range of one sentence more (chunk_text joins the sentences
\* of several paragraphs with spaces, and the joined text can split into
\* fewer)
ChunksOf(text) ==
    LET n == Len(split_paragraph_into_sentences(text))
    IN  {Chunk(0, text, s, s + d, t, NoTitle) :
            s \in 0..1,
            d \in {0, Max(n, 1) - 1},
            t \in {count_tokens(text), count_tokens(text) + 1, 0}}
        \cup {Chunk(0, text, s, s + Max(n, 1), count_tokens(text), NoTitle) :
                 s \in 0..1}

\* a second chunk, titled, of one sentence
Follower == Chunk(7, OneWord, 5, 5, 1, PlainTitle(OneWord))

InitEnforce ==
    /\ call = "enforce"
    /\ pc = "enforce"
    /\ \E text \in SeqsUpTo(EnforcePieces, MaxPieces) :
       \E c \in ChunksOf(text) :
          chunks \in {<<c>>, <<c, Follower>>}
    /\ cap \in 0..MaxLimit
    /\ safe = <<>>
    /\ again = <<>>
    /\ i = 0
    /\ start_i = 0
    /\ end_i = -1
    /\ cid = 0
    /\ sentences = <<>>
    /\ max_tokens = 1
    /\ overlap_tokens = 0
    /\ title = NoTitle
    /\ body = <<>>
    /\ max_embed_tokens = 0
    /\ result = <<>>
    /\ EmbedIdle

NextEnforce == EnforceCall \/ EnforceAgain

SpecEnforce == InitEnforce /\ [][NextEnforce]_vars

----------------------------------------------------------------------------
(* Inputs of create_chunks_for_document.                                   *)

\* sentences of one or two tokens, a word that continues a sentence, and a
\* sentence far longer than any cap tried
DocPieces ==
    [tok : 1..2, lead : 0..1, cap : {TRUE}, end : {"term"}]
      \cup {[tok |-> 1, lead |-> 0, cap |-> FALSE, end |-> "none"],
            [tok |-> 250, lead |-> 0, cap |-> TRUE, end |-> "term"]}

NoPiece == [tok |-> 0, lead |-> 0, cap |-> FALSE, end |-> "none"]

BodyItems ==
    {[md |-> "text", piece |-> p] : p \in DocPieces}
      \cup {[md |-> m, piece |-> NoPiece] : m \in {"markup", "space"}}

\* no title, the empty title, a one-word title, a title of 250 tokens
Titles ==
    {NoTitle, PlainTitle(<<>>), PlainTitle(OneWord),
     PlainTitle(<<[tok |-> 250, lead |-> 0, cap |-> TRUE, end |-> "none"]>>)}

InitDoc ==
    /\ call = "document"
    /\ pc = "start"
    /\ title \in Titles
    /\ body \in SeqsUpTo(BodyItems, MaxBody)
    /\ max_tokens \in {0, 1, MaxLimit}
    /\ overlap_tokens \in 0..1
    /\ max_embed_tokens \in {Headroom + 1, Headroom + MaxLimit}
    /\ sentences = <<>>
    /\ i = 0
    /\ start_i = 0
    /\ end_i = -1
    /\ cid = 0
    /\ chunks = <<>>
    /\ cap = 0
    /\ safe = <<>>
    /\ again = <<>>
    /\ result = <<>>
    /\ EmbedIdle

NextDoc == DocStart \/ PackEnter \/ PackScan \/ PackClose \/ PackReturn \/ DocFinish

SpecDoc == InitDoc /\ [][NextDoc]_vars

----------------------------------------------------------------------------
(* Inputs of embed_rows.                                                   *)

\* token counts of short lists: none, one, the limit, the limit and one
RowCounts == {0, 1, EMBEDDING_TOKEN_LIMIT, EMBEDDING_TOKEN_LIMIT + 1}

\* as many rows at the limit as the budget holds
FullBatch ==
    [k \in 1..(PER_REQUEST_TOKEN_BUDGET \div EMBEDDING_TOKEN_LIMIT) |-> EMBEDDING_TOKEN_LIMIT]

\* token counts of the rows after a full batch: what fills the budget
\* exactly, one more, the limit, the limit and one
TailCounts ==
    {PER_REQUEST_TOKEN_BUDGET % EMBEDDING_TOKEN_LIMIT,
     (PER_REQUEST_TOKEN_BUDGET % EMBEDDING_TOKEN_LIMIT) + 1,
     EMBEDDING_TOKEN_LIMIT, EMBEDDING_TOKEN_LIMIT + 1}

\* the rows with the given token counts
RowsOf(counts) == [k \in 1..Len(counts) |-> [body |-> k, token_count |-> counts[k]]]

InitEmbed ==
    /\ call = "embed"
    /\ pc = "embed"
    /\ \/ \E counts \in SeqsUpTo(RowCounts, MaxRows) : rows = RowsOf(counts)
       \/ \E tail \in SeqsUpTo(TailCounts, MaxRows) : rows = RowsOf(FullBatch \o tail)
    /\ client \in {"None", "OpenAI"}
    /\ row_i = 0
    /\ batch_texts = <<>>
    /\ batch_tokens = 0
    /\ requests = <<>>
    /\ vectors = <<>>
    /\ title = NoTitle
    /\ body = <<>>
    /\ max_embed_tokens = 0
    /\ sentences = <<>>
    /\ max_tokens = 1
    /\ overlap_tokens = 0
    /\ i = 0
    /\ start_i = 0
    /\ end_i = -1
    /\ cid = 0
    /\ chunks = <<>>
    /\ cap = 0
    /\ safe = <<>>
    /\ again = <<>>
    /\ result = <<>>

NextEmbed == EmbedEnter \/ EmbedRow \/ EmbedReturn

SpecEmbed == InitEmbed /\ [][NextEmbed]_vars

----------------------------------------------------------------------------
(* Every call.                                                             *)

Init == InitPack \/ InitEnforce \/ InitDoc \/ InitEmbed

Next == PackEnter \/ PackScan \/ PackClose \/ PackReturn \/ EnforceCall \/ EnforceAgain
          \/ DocStart \/ DocFinish \/ EmbedEnter \/ EmbedRow \/ EmbedReturn

Spec == Init /\ [][Next]_vars

\* the calls that run enforce_hard_cap: on a chunk list given, or on the one
\* create_chunks_for_document packs
InitSplit == InitEnforce \/ InitDoc

NextSplit == NextEnforce \/ NextDoc

SpecSplit == InitSplit /\ [][NextSplit]_vars

----------------------------------------------------------------------------
(* Properties of pack_sentences_into_chunks.                               *)

PackReturned == call = "pack" /\ pc = "done"

\* sum of toks over the 0-based indices a..b
RECURSIVE SumToks(_, _, _)
SumToks(toks, a, b) == IF a > b THEN 0 ELSE toks[a + 1] + SumToks(toks, a + 1, b)

Covered(list) ==
    UNION {c.start_sentence..c.end_sentence : c \in {list[k] : k \in 1..Len(list)}}

\* C1: for every sentence list, max_tokens > 0 and overlap_tokens >= 0 the
\* packer terminates: the scan index reaches the end of the list and the
\* chunk list is returned.
PackTerminates == (max_tokens > 0 /\ overlap_tokens >= 0) => <>(pc = "done")

\* C5: for a non-empty sentence list of length n the returned chunks' ranges
\* cover exactly 0..n-1, leave no gap between consecutive chunks, and both
\* start_sentence and end_sentence are non-decreasing in chunk order.
PackCoverage ==
    (PackReturned /\ sentences # <<>>) =>
        /\ Covered(chunks) = 0..(Len(sentences) - 1)
        /\ \A k \in 1..(Len(chunks) - 1) :
              /\ chunks[k].start_sentence <= chunks[k + 1].start_sentence
              /\ chunks[k].end_sentence <= chunks[k + 1].end_sentence
              /\ chunks[k + 1].start_sentence <= chunks[k].end_sentence + 1

\* a returned list of three chunks, each starting inside its predecessor
PackCoverageWitness ==
    /\ PackReturned
    /\ Len(chunks) = 3
    /\ \A k \in 1..2 : chunks[k + 1].start_sentence = chunks[k].end_sentence

\* the largest k in s..e with the tokens of k..e summing to o or more, else s
OverlapTarget(toks, s, e, o) ==
    LET reach == {k \in s..e : SumToks(toks, k, e) >= o}
    IN  IF reach = {} THEN s ELSE CHOOSE k \in reach : \A m \in reach : m <= k

\* C6: with overlap_tokens = o > 0 the chunk after a closed chunk [s, e]
\* starts at the largest k in s..e whose tokens k..e sum to o or more, or at
\* s when there is none; so it never starts before s, and for ten 20-token
\* sentences, max_tokens 45, o = 20 the second chunk starts with the last
\* sentence of the first.
PackOverlapStart ==
    (call = "pack" /\ overlap_tokens > 0) =>
        /\ \A k \in 1..(Len(chunks) - 1) :
              /\ chunks[k + 1].start_sentence =
                    OverlapTarget(sentence_token_counts(sentences),
                                  chunks[k].start_sentence, chunks[k].end_sentence,
                                  overlap_tokens)
              /\ chunks[k + 1].start_sentence >= chunks[k].start_sentence
              /\ chunks[k + 1].start_sentence <= chunks[k].end_sentence
        /\ (sentences = TenSentences /\ Len(chunks) >= 2) =>
              /\ chunks[1].end_sentence = 1
              /\ chunks[2].start_sentence = 1

\* the ten-sentence run has returned, and some run restarted strictly inside a chunk
PackOverlapWitness ==
    /\ PackReturned
    /\ sentences = TenSentences
    /\ overlap_tokens = 20
    /\ Len(chunks) = 9

\* C7: with overlap_tokens = 0 the returned chunks partition the sentence
\* list: the first starts at 0, each later one starts right after its
\* predecessor's end, the last ends at n-1, no index is in two chunks; ten
\* 20-token sentences with max_tokens 45 give five chunks of two sentences.
PackPartition ==
    (PackReturned /\ overlap_tokens = 0 /\ sentences # <<>>) =>
        /\ chunks # <<>>
        /\ chunks[1].start_sentence = 0
        /\ \A k \in 1..(Len(chunks) - 1) :
              chunks[k + 1].start_sentence = chunks[k].end_sentence + 1
        /\ Last(chunks).end_sentence = Len(sentences) - 1
        /\ \A k, m \in 1..Len(chunks) :
              k # m => (chunks[k].start_sentence..chunks[k].end_sentence)
                         \cap (chunks[m].start_sentence..chunks[m].end_sentence) = {}
        /\ sentences = TenSentences =>
              /\ Len(chunks) = 5
              /\ \A k \in 1..5 : chunks[k].end_sentence = chunks[k].start_sentence + 1

PackPartitionWitness ==
    /\ PackReturned
    /\ overlap_tokens = 0
    /\ sentences = TenSentences
    /\ Len(chunks) = 5

----------------------------------------------------------------------------
(* Properties of enforce_hard_cap.                                         *)

EnforceReturned == call = "enforce" /\ pc \in {"enforced", "done"}

\* C3: every chunk enforce_hard_cap returns has token_count <= cap, except a
\* chunk of exactly one re-derived sentence whose own count exceeds cap; a
\* sub-chunk of two or more sentences is never above cap.
EnforceWithinCap ==
    EnforceReturned =>
        \A k \in 1..Len(safe) :
            \/ safe[k].token_count <= cap
            \/ /\ Len(split_paragraph_into_sentences(safe[k].text)) = 1
               /\ count_tokens(safe[k].text) > cap

\* C8: enforce_hard_cap applied to its own result, with the same cap, returns
\* that result field by field, also when a single sentence stayed above cap.
EnforceIdempotent ==
    (call = "enforce" /\ pc = "done") => again = safe

\* the first pass split a chunk and left a single sentence above the cap
EnforceIdempotentWitness ==
    /\ call = "enforce"
    /\ pc = "done"
    /\ Len(safe) > Len(chunks)
    /\ \E k \in 1..Len(safe) :
          /\ safe[k].token_count > cap
          /\ safe[k].start_sentence = safe[k].end_sentence
          /\ safe[k].start_sentence > chunks[1].start_sentence

----------------------------------------------------------------------------
(* Properties of create_chunks_for_document and of every stage.            *)

DocReturned == call = "document" /\ pc = "done"

\* C2: a document whose body holds a non-whitespace character yields at
\* least one chunk, whatever text the cleaning returns for that body.
DocYieldsChunk ==
    (DocReturned /\ ~BlankBody(body)) => Len(result) >= 1

\* C4: every chunk create_chunks_for_document returns has a final
\* token_count, prefix included, of at most max_embed_tokens.
DocWithinEmbedCap ==
    DocReturned => \A k \in 1..Len(result) : result[k].token_count <= max_embed_tokens

IdsFromZero(list) == \A k \in 1..Len(list) : list[k].chunk_id = k - 1

\* C9: in the list each of pack_sentences_into_chunks, enforce_hard_cap and
\* create_chunks_for_document returns, the chunk at position k has chunk_id
\* k, also when oversized chunks were replaced by several sub-chunks.
ChunkIdsSequential ==
    /\ call \in {"pack", "document"} => IdsFromZero(chunks)
    /\ IdsFromZero(safe)
    /\ IdsFromZero(again)
    /\ IdsFromZero(result)

\* a document returned whose packed chunks the enforcer split further, and
\* an enforcer call that split the first of two chunks
ChunkIdsWitness ==
    \/ /\ DocReturned
       /\ Len(chunks) >= 2
       /\ Len(result) > Len(chunks)
    \/ /\ call = "enforce"
       /\ pc = "done"
       /\ Len(chunks) = 2
       /\ Len(safe) = 3

NonEmptyRanges(list) ==
    \A k \in 1..Len(list) : list[k].start_sentence <= list[k].end_sentence

\* C10: every chunk of pack_sentences_into_chunks, of enforce_hard_cap (given
\* chunks with start_sentence <= end_sentence) and of
\* create_chunks_for_document has start_sentence <= end_sentence, also when
\* its single sentence exceeds max_tokens or the cap.
ChunkRangesNonEmpty ==
    /\ NonEmptyRanges(chunks)
    /\ NonEmptyRanges(safe)
    /\ NonEmptyRanges(again)
    /\ NonEmptyRanges(result)

\* a packed chunk of one sentence above max_tokens, followed by another chunk
ChunkRangesWitness ==
    /\ PackReturned
    /\ Len(chunks) >= 2
    /\ chunks[1].start_sentence = chunks[1].end_sentence
    /\ chunks[1].token_count > max_tokens

----------------------------------------------------------------------------
(* Token counts, argument errors, the blank body, titles and prefixes.     *)

CountsCurrent(list) ==
    \A k \in 1..Len(list) : list[k].token_count = count_tokens(list[k].text)

\* C11: every chunk returned by pack_sentences_into_chunks, by
\* enforce_hard_cap (given chunks for which this holds) and by
\* create_chunks_for_document has token_count = count_tokens(text) for the
\* text it carries: not the count of the text before the prefix, not the sum
\* of its sentences' counts.
TokenCountsCurrent ==
    /\ call \in {"pack", "document"} => CountsCurrent(chunks)
    /\ (call = "document" \/ CountsCurrent(chunks)) =>
          (CountsCurrent(safe) /\ CountsCurrent(again))
    /\ CountsCurrent(result)

\* a titled document returned in several prefixed chunks, one of them of two
\* sentences whose joined text counts more than the sentences do apart
TokenCountsWitness ==
    /\ DocReturned
    /\ Truthy(title)
    /\ Len(result) > 1
    /\ \E k \in 1..Len(result) : result[k].token_count # safe[k].token_count
    /\ \E k \in 1..Len(chunks) :
          /\ chunks[k].end_sentence > chunks[k].start_sentence
          /\ chunks[k].token_count >
                SumToks(sentence_token_counts(sentences),
                        chunks[k].start_sentence, chunks[k].end_sentence)

\* C12: pack_sentences_into_chunks raises ValueError whenever max_tokens <= 0
\* or overlap_tokens < 0, for every sentence list, the empty one included,
\* and before any chunk is built; with max_tokens > 0 and overlap_tokens >= 0
\* it never raises.
PackRaisesOnInvalid ==
    call = "pack" =>
        /\ pc = "raised" => (max_tokens <= 0 \/ overlap_tokens < 0)
        /\ (max_tokens <= 0 \/ overlap_tokens < 0) =>
              (pc \in {"enter", "raised"} /\ chunks = <<>>)

\* the call with no sentence and max_tokens = 0 has raised
PackRaisesWitness ==
    /\ call = "pack"
    /\ pc = "raised"
    /\ sentences = <<>>
    /\ max_tokens = 0
    /\ overlap_tokens >= 0

\* C13: for an empty or whitespace-only body create_chunks_for_document
\* returns exactly one chunk: chunk_id 0, text the title (the placeholder when
\* the title is absent or empty), token_count counted over that text,
\* sentence range [0, 0]; nothing is raised and neither the cleaner, the
\* packer nor the enforcer runs.
BlankBodyOneChunk ==
    (call = "document" /\ BlankBody(body)) =>
        /\ pc \in {"start", "done"}
        /\ sentences = <<>> /\ chunks = <<>> /\ safe = <<>>
        /\ pc = "done" =>
              /\ Len(result) = 1
              /\ result[1].chunk_id = 0
              /\ result[1].text = IF title.some /\ title.str # <<>>
                                  THEN title.str ELSE Untitled
              /\ result[1].token_count = count_tokens(result[1].text)
              /\ result[1].start_sentence = 0
              /\ result[1].end_sentence = 0

\* a whitespace-only body without a title, chunk_size 0, has returned
BlankBodyWitness ==
    /\ DocReturned
    /\ body # <<>>
    /\ BlankBody(body)
    /\ title = NoTitle
    /\ max_tokens = 0

\* C14: a chunk's title is assigned only when the document yields more than
\* one chunk: whenever create_chunks_for_document returns exactly one chunk,
\* for any title and any body, that chunk's title is absent.
SingleChunkUntitled ==
    (DocReturned /\ Len(result) = 1) => result[1].title = NoTitle

\* C15: create_chunks_for_document adds the context prefix and the part
\* numbers exactly when more than one chunk results: of total > 1 chunks the
\* one at position k is titled "{title} (part k/total)" ("Part k/total"
\* without a title) and its text is "Title: {title}" and a blank line (nothing
\* without a title) followed by the enforcer's text; a single chunk keeps the
\* enforcer's text and has no part marker.
PrefixWhenSeveral ==
    /\ (DocReturned /\ ~BlankBody(body)) =>
          /\ Len(result) = Len(safe)
          /\ Len(safe) > 1 =>
                \A k \in 1..Len(safe) :
                    /\ result[k].title =
                          [some |-> TRUE,
                           str |-> IF title.some /\ title.str # <<>>
                                   THEN title.str ELSE <<>>,
                           part |-> k, total |-> Len(safe)]
                    /\ result[k].text = context_prefix(title) \o safe[k].text
                    /\ ~(title.some /\ title.str # <<>>) =>
                          result[k].text = safe[k].text
                    /\ (title.some /\ title.str # <<>>) =>
                          /\ Len(result[k].text) = Len(safe[k].text) + Len(title.str) + 2
                          /\ SubSeq(result[k].text, 2, Len(title.str) + 1) = title.str
          /\ Len(safe) = 1 => result = safe
    /\ (DocReturned /\ Len(result) = 1) =>
          (result[1].title.part = 0 /\ result[1].title.total = 0)

\* a titled document returned in three chunks, the enforcer having split one
PrefixWitness ==
    /\ DocReturned
    /\ Truthy(title)
    /\ Len(result) = 3
    /\ Len(chunks) = 2

----------------------------------------------------------------------------
(* The greedy run, and the enforcer's split as a run of the packer.        *)

\* C19: each chunk [s, e] of pack_sentences_into_chunks is the greedy maximal
\* run from s: e = s (one sentence, possibly above max_tokens) or the
\* sentences s..e sum to max_tokens at most; and e is the last index or
\* sentence e + 1 would push the sum above max_tokens.  So sentences summing
\* to max_tokens at most give exactly one chunk, covering them all.
PackGreedyMaximal ==
    call = "pack" =>
        LET toks == sentence_token_counts(sentences)
            n    == Len(sentences)
        IN  /\ \A k \in 1..Len(chunks) :
                  LET s == chunks[k].start_sentence
                      e == chunks[k].end_sentence
                  IN  /\ e = s \/ SumToks(toks, s, e) <= max_tokens
                      /\ e = n - 1 \/ SumToks(toks, s, e + 1) > max_tokens
            /\ (PackReturned /\ n > 0 /\ SumToks(toks, 0, n - 1) <= max_tokens) =>
                  /\ Len(chunks) = 1
                  /\ chunks[1].start_sentence = 0
                  /\ chunks[1].end_sentence = n - 1

\* a first chunk of two sentences that fill max_tokens exactly, and more chunks
PackGreedyWitness ==
    /\ PackReturned
    /\ Len(chunks) >= 2
    /\ chunks[1].end_sentence = 1
    /\ SumToks(sentence_token_counts(sentences), 0, 1) = max_tokens

\* texts, token counts and sentence ranges less shift, in order
Outcome(list, shift) ==
    [k \in 1..Len(list) |->
        [text |-> list[k].text, token_count |-> list[k].token_count,
         start_sentence |-> list[k].start_sentence - shift,
         end_sentence |-> list[k].end_sentence - shift]]

\* C20: for an oversized chunk c and any cap, what enforce_hard_cap returns
\* for c is what the packer returns for the sentences re-derived from c.text
\* with max_tokens = cap and overlap_tokens = 0: the same texts and token
\* counts in the same order, the ranges shifted by c.start_sentence, and a
\* ValueError where the packer's arguments are invalid.
EnforceIsRepack ==
    (EnforceReturned /\ Len(chunks) = 1 /\ chunks[1].token_count > cap) =>
        /\ ~InvalidArguments(cap, 0)
        /\ Outcome(safe, chunks[1].start_sentence) =
              Outcome(PackFrom(split_paragraph_into_sentences(chunks[1].text),
                               cap, 0, 0, <<>>), 0)

----------------------------------------------------------------------------
(* Properties of embed_rows.                                               *)

\* sum of token_count over the rows whose bodies a request carries
RECURSIVE RequestTokens(_)
RequestTokens(input) ==
    IF input = <<>> THEN 0
    ELSE rows[Head(input)].token_count + RequestTokens(Tail(input))

Oversized == {k \in 1..Len(rows) : rows[k].token_count > EMBEDDING_TOKEN_LIMIT}

Submitted == UNION {{requests[r][k] : k \in 1..Len(requests[r])} : r \in 1..Len(requests)}

\* C17 as stated: if any row has token_count > EMBEDDING_TOKEN_LIMIT,
\* embed_rows raises ValueError and returns no vectors, and that row's text
\* is in no request sent.
OversizedRowRaisesValueError ==
    (call = "embed" /\ Oversized # {}) =>
        /\ pc \in {"embed", "rows", "raised"}
        /\ Submitted \cap Oversized = {}

\* C17 amended: if any row has token_count > EMBEDDING_TOKEN_LIMIT,
\* embed_rows returns no vectors and that row's text is in no request sent;
\* with a client it raises ValueError when the loop comes to the first such
\* row, which is neither cut nor passed over; without a client it raises
\* RuntimeError before it looks at any row.
OversizedRowRaises ==
    (call = "embed" /\ Oversized # {}) =>
        /\ Submitted \cap Oversized = {}
        /\ client # "None" =>
              /\ pc \in {"embed", "rows", "raised"}
              /\ \A k \in Oversized : row_i < k
              /\ pc = "raised" => row_i + 1 \in Oversized
        /\ client = "None" =>
              /\ pc \in {"embed", "runtime_error"}
              /\ requests = <<>>

\* ValueError raised at a row above the limit after a full batch was sent
OversizedRowWitness ==
    /\ call = "embed"
    /\ pc = "raised"
    /\ Len(requests) = 1
    /\ rows[row_i + 1].token_count = EMBEDDING_TOKEN_LIMIT + 1

\* C18: when embed_rows returns, every row's body was sent in exactly one
\* request, the requests in order concatenate to the row order, and, the
\* backend giving one vector per input in input order, the list returned has
\* one vector per row, the k-th that of the k-th row.
VectorsAligned ==
    (call = "embed" /\ pc = "done") =>
        /\ Join(requests) = [k \in 1..Len(rows) |-> rows[k].body]
        /\ \A k \in 1..Len(rows) :
              Cardinality({r \in 1..Len(requests) :
                              \E m \in 1..Len(requests[r]) : requests[r][m] = rows[k].body}) = 1
        /\ Len(vectors) = Len(rows)
        /\ \A k \in 1..Len(rows) : vectors[k] = [embedding |-> rows[k].body]

\* a returned call that needed two requests
VectorsAlignedWitness ==
    /\ call = "embed"
    /\ pc = "done"
    /\ Len(requests) = 2
    /\ Len(requests[2]) = 2

----------------------------------------------------------------------------
(* Sentence ranges of the enforcer's sub-chunks.                           *)

\* enforce_hard_cap has just returned: chunks is the list it was given, cap
\* its cap and safe the list it returned
EnforcerRan == (call = "enforce" /\ pc = "enforced") \/ DocReturned

\* how many chunks the for loop appends at each chunk of the list
SubChunkCounts ==
    [k \in 1..Len(chunks) |-> Len(enforce_hard_cap(<<chunks[k]>>, cap))]

\* the part of safe appended while the for loop was at chunks[k]
SubChunksOf(counts, k) ==
    SubSeq(safe, SumToks(counts, 0, k - 2) + 1, SumToks(counts, 0, k - 1))

\* ranges that begin where c begins and follow one another without gap or
\* overlap
ContiguousFrom(subs, c) ==
    /\ subs # <<>> => subs[1].start_sentence = c.start_sentence
    /\ \A m \in 1..Len(subs) : subs[m].start_sentence <= subs[m].end_sentence
    /\ \A m \in 1..(Len(subs) - 1) :
          subs[m + 1].start_sentence = subs[m].end_sentence + 1

----------------------------------------------------------------------------
(* Progress of the packer from one chunk to the next.                      *)

\* C22: in every prefix of the chunk list pack_sentences_into_chunks builds,
\* for max_tokens > 0 and overlap_tokens >= 0, each chunk after the first has
\* an end_sentence strictly greater than its predecessor's: every new chunk
\* holds a sentence its predecessor did not, and no range is emitted twice.
PackEndsIncrease ==
    (call = "pack" /\ max_tokens > 0 /\ overlap_tokens >= 0) =>
        \A k \in 1..(Len(chunks) - 1) :
            chunks[k + 1].end_sentence > chunks[k].end_sentence

=============================================================================
